---- MODULE Spec2Model ----
\* A model of src/src/lib.rs: the run-length encoder of glyph bitmaps
\* (Font::generate_rle, Font::generate_rle_image), the compiler of the
\* character-to-glyph-index lookup (Font::generate_get_glyph_index), the font
\* build (Font::generate, Font::generate_glyph) and the thresholding of a
\* decoded PNG (Image::load).
\*
\* Rust integers keep their width: a u16 holds 0..65535 and a u8 0..255.  An
\* arithmetic overflow panics in a build with overflow checks (debug) and
\* wraps in one without (release); overflow_checks says which build runs.
\* A panic is the value Panic: the function returned nothing.
EXTENDS Integers, Sequences, FiniteSets, TLC

VARIABLES pc, overflow_checks,
          row, width, i, st,
          bm, rle_image,
          chars, code,
          subset_in, subset, glyphs, k, face, font,
          png, image

rleVars   == <<row, width, i, st>>
imgVars   == <<bm, rle_image>>
idxVars   == <<chars, code>>
fontVars  == <<subset_in, subset, glyphs, k, face, font>>
pngVars   == <<png, image>>
vars      == <<pc, overflow_checks, rleVars, imgVars, idxVars, fontVars, pngVars>>

\* ------------------------------------------------------------------ bounds

\* Rows of at most MaxWidth pixels (more than 8, so a row spans two bytes).
MaxWidth == 9
\* Bitmaps of at most MaxHeight rows.
MaxHeight == 2
\* The long rows start with LongBytes equal bytes (8 * LongBytes pixels).
LongBytes == 4096
\* The font builds draw their characters from NChars characters, at most
\* MaxSubsetLen of them.
NChars == 4
MaxSubsetLen == 3
\* The index compiler alone is given the code points 1..MaxCode (and 65).
MaxCode == 10
\* The decoded images have at most MaxPixels pixels.
MaxPixels == 2

\* The bytes the rows of the small bitmaps are made of: every 3-bit prefix,
\* and bytes whose low bits differ.
ByteVals == {0, 32, 64, 96, 128, 160, 192, 224, 255, 1}
\* The bytes of the rows that are two bytes wide.
WideVals == {0, 255, 165}

\* ------------------------------------------------------------------ values

None  == [none |-> TRUE]
Panic == [panic |-> TRUE]

Max(a, b) == IF a > b THEN a ELSE b

\* Rust's integer division truncates toward zero; \div rounds down.
TruncDiv(a, b) == IF a >= 0 THEN a \div b ELSE -((-a) \div b)

\* A byte slice &[u8], kept as nfill bytes equal to fill followed by the bytes
\* of tail, so that a row of thousands of equal bytes stays a small value.
Slice(bytes) == [nfill |-> 0, fill |-> 0, tail |-> bytes]
RowLen(r) == r.nfill + Len(r.tail)
\* r[n], n counted from 0 and within the slice.
RowByte(r, n) == IF n < r.nfill THEN r.fill ELSE r.tail[n - r.nfill + 1]

\* ------------------------------------------------------------------ generate_rle

\* ((run_color as u16) << 15) | run_length: the bitwise or of two u16.
RleWord(run_color, run_length) ==
    (run_length % 32768) + 32768 * Max(run_color, run_length \div 32768)

\* The locals of generate_rle before its loop; row[0] panics on an empty row.
rle_init(output, r) ==
    IF RowLen(r) = 0 THEN Panic
    ELSE [panic |-> FALSE,
          run_color |-> (RowByte(r, 0) \div 128) % 2,
          run_length |-> 0,
          bits |-> 0,
          output |-> output]

\* run_length += 1 on a u16.
rle_incr(run_length, oc) ==
    IF run_length + 1 > 65535
    THEN (IF oc THEN Panic ELSE [panic |-> FALSE, v |-> (run_length + 1) % 65536])
    ELSE [panic |-> FALSE, v |-> run_length + 1]

\* One iteration of the loop of generate_rle, for pixel n of the row.
rle_step(s, r, n, oc) ==
    IF s.panic THEN Panic
    ELSE IF n \div 8 >= RowLen(r) THEN Panic
    ELSE LET byte == RowByte(r, n \div 8)
             bit  == (byte \div (2 ^ (7 - s.bits))) % 2
             nb   == IF s.bits + 1 = 8 THEN 0 ELSE s.bits + 1
         IN IF bit = s.run_color
            THEN LET inc == rle_incr(s.run_length, oc)
                 IN IF inc.panic THEN Panic
                    ELSE [s EXCEPT !.run_length = inc.v, !.bits = nb]
            ELSE [s EXCEPT !.output = Append(@, RleWord(s.run_color, s.run_length)),
                           !.run_length = 1,
                           !.run_color = bit,
                           !.bits = nb]

\* The push after the loop: the last run is flushed unconditionally.
rle_flush(s) ==
    IF s.panic THEN Panic
    ELSE [panic |-> FALSE, output |-> Append(s.output, RleWord(s.run_color, s.run_length))]

RECURSIVE rle_loop(_, _, _, _, _)
rle_loop(s, r, n, w, oc) ==
    IF n >= w THEN s ELSE rle_loop(rle_step(s, r, n, oc), r, n + 1, w, oc)

\* generate_rle(output, row, width): output with the words of the row appended.
generate_rle(output, r, w, oc) == rle_flush(rle_loop(rle_init(output, r), r, 0, w, oc))

\* ------------------------------------------------------------------ generate_rle_image

\* image_rows with a slip: the offset after row y is stored in header word y.
RECURSIVE image_rows_slot(_, _, _, _)
image_rows_slot(data, b, y, oc) ==
    IF y >= b.rows THEN [panic |-> FALSE, data |-> data]
    ELSE IF (y + 1) * b.pitch > Len(b.buffer) THEN Panic
    ELSE LET r == generate_rle(data, Slice(SubSeq(b.buffer, y * b.pitch + 1, (y + 1) * b.pitch)),
                               b.width, oc)
         IN IF r.panic THEN Panic
            ELSE image_rows_slot([r.output EXCEPT ![y + 1] = Len(r.output) % 65536], b, y + 1, oc)

\* The loop over the rows, from row y on: the row is sliced out of the buffer,
\* its runs are appended, and header word y + 1 takes the length so far.
RECURSIVE image_rows(_, _, _, _)
image_rows(data, b, y, oc) ==
    IF y >= b.rows THEN [panic |-> FALSE, data |-> data]
    ELSE IF (y + 1) * b.pitch > Len(b.buffer) THEN Panic
    ELSE LET r == generate_rle(data, Slice(SubSeq(b.buffer, y * b.pitch + 1, (y + 1) * b.pitch)),
                               b.width, oc)
         IN IF r.panic THEN Panic
            ELSE image_rows([r.output EXCEPT ![y + 2] = Len(r.output) % 65536], b, y + 1, oc)

\* generate_rle_image(bm): the words of the RLEImage, with its width and
\* height.  data[1] is the first word (the source counts from 0).
generate_rle_image(b, oc) ==
    LET data0 == [j \in 1..(b.rows + 1) |-> IF j = 1 THEN (b.rows + 1) % 65536 ELSE 0]
        r     == image_rows(data0, b, 0, oc)
    IN IF r.panic THEN Panic
       ELSE [panic |-> FALSE, data |-> r.data, width |-> b.width, height |-> b.rows]

\* ------------------------------------------------------------------ bitmaps

Pitch(w) == (w + 7) \div 8

\* The rows of w pixels, as the rasterizer packs them (MSB first).
RowsOf(w) ==
    IF Pitch(w) = 1 THEN {<<b>> : b \in ByteVals}
    ELSE {[j \in 1..Pitch(w) |-> f[j]] : f \in [1..Pitch(w) -> WideVals]}

RECURSIVE Flatten(_)
Flatten(rows) == IF rows = <<>> THEN <<>> ELSE Head(rows) \o Flatten(Tail(rows))

\* A freetype::Bitmap of w x h pixels: buffer, pitch, width, rows.
BitmapsOf(w, h) ==
    {[buffer |-> Flatten(rs), pitch |-> Pitch(w), width |-> w, rows |-> h] :
        rs \in [1..h -> RowsOf(w)]}

\* The bitmap of a glyph without pixels (a space).
EmptyBitmap == [buffer |-> <<>>, pitch |-> 0, width |-> 0, rows |-> 0]

Bitmaps == {EmptyBitmap} \cup UNION {BitmapsOf(w, h) : w \in 1..MaxWidth, h \in 1..MaxHeight}

\* The rows generate_rle is stepped through: every one-byte row, and the long
\* rows of 8 * LongBytes pixels of one colour, one pixel fewer or one more.
SmallRowCases == {<<Slice(<<b>>), w>> : b \in ByteVals, w \in 1..8}
LongRowCases ==
    {<<[nfill |-> LongBytes, fill |-> f, tail |-> <<t>>], 8 * LongBytes + d>> :
        f \in {0, 255}, t \in {0, 128}, d \in {-1, 0, 1}}

\* ------------------------------------------------------------------ generate_get_glyph_index

\* One clause of the emitted lookup, as generate_get_glyph_index_range writes
\* it: "if c == a { return Some(ret) }" for a run of one character, and
\* "if c >= lo && c < hi { return Some(base + c - sub) }" otherwise.
generate_get_glyph_index_range(run_start, run_length, start_index) ==
    IF run_length = 1
    THEN [op |-> "eq", a |-> run_start, ret |-> start_index]
    ELSE [op |-> "range", lo |-> run_start, hi |-> run_start + run_length,
          base |-> start_index, sub |-> run_start]

\* index_loop with a slip: a run's index is the position where it broke.
RECURSIVE index_loop_pos(_, _, _, _, _)
index_loop_pos(cs, n, run_start, run_length, clauses) ==
    IF n >= Len(cs)
    THEN Append(clauses, generate_get_glyph_index_range(run_start, run_length, Len(cs) - run_length))
    ELSE LET c == cs[n + 1]
         IN IF c = run_start + run_length
            THEN index_loop_pos(cs, n + 1, run_start, run_length + 1, clauses)
            ELSE index_loop_pos(cs, n + 1, c, 1,
                    Append(clauses, generate_get_glyph_index_range(run_start, run_length, n)))

\* The scan for i in 1..chars.len() from i = n on, and the flush after it.
\* cs[n + 1] is chars[n] of the source.  A run never holds more characters
\* than were scanned, so n - run_length does not go below 0.
RECURSIVE index_loop(_, _, _, _, _)
index_loop(cs, n, run_start, run_length, clauses) ==
    IF n >= Len(cs)
    THEN Append(clauses, generate_get_glyph_index_range(run_start, run_length, Len(cs) - run_length))
    ELSE LET c == cs[n + 1]
         IN IF c = run_start + run_length
            THEN index_loop(cs, n + 1, run_start, run_length + 1, clauses)
            ELSE index_loop(cs, n + 1, c, 1,
                    Append(clauses,
                           generate_get_glyph_index_range(run_start, run_length, n - run_length)))

\* generate_get_glyph_index(chars): the clauses of the closure, in the order
\* they are written; chars[0] panics on an empty vector.
generate_get_glyph_index(cs) ==
    IF Len(cs) = 0 THEN Panic
    ELSE [panic |-> FALSE, clauses |-> index_loop(cs, 1, cs[1], 1, <<>>)]

\* The emitted closure applied to c: the first clause that matches returns,
\* and the closure ends in None.
RECURSIVE Lookup(_, _)
Lookup(clauses, c) ==
    IF clauses = <<>> THEN None
    ELSE LET h == Head(clauses)
         IN IF h.op = "eq"
            THEN (IF c = h.a THEN [some |-> h.ret] ELSE Lookup(Tail(clauses), c))
            ELSE (IF c >= h.lo /\ c < h.hi THEN [some |-> (h.base + c) - h.sub]
                  ELSE Lookup(Tail(clauses), c))

\* ------------------------------------------------------------------ generate_glyph

\* generate_glyph with a slip: the vertical bearing is not asserted.
generate_glyph_unchecked(r, oc) ==
    IF ~r.loaded THEN Panic
    ELSE LET img == generate_rle_image(r.bitmap, oc)
         IN IF img.panic THEN Panic
            ELSE [panic |-> FALSE,
                  image |-> img,
                  image_left |-> r.bitmap_left,
                  image_top |-> r.bitmap_top,
                  advance |-> TruncDiv(r.advance_x + 63, 64)]

\* generate_glyph for a character whose rasterization is r: load_char is
\* unwrapped, the bitmap is encoded, and bitmap_top >= 0 is asserted.
generate_glyph(r, oc) ==
    IF ~r.loaded THEN Panic
    ELSE LET img == generate_rle_image(r.bitmap, oc)
         IN IF img.panic THEN Panic
            ELSE IF ~(r.bitmap_top >= 0) THEN Panic
            ELSE [panic |-> FALSE,
                  image |-> img,
                  image_left |-> r.bitmap_left,
                  image_top |-> r.bitmap_top,
                  advance |-> TruncDiv(r.advance_x + 63, 64)]

\* ------------------------------------------------------------------ generate

\* Sort with a slip: the characters stay in the order given.
SortNone(s) == s

RECURSIVE Insert(_, _)
Insert(s, x) ==
    IF s = <<>> THEN <<x>>
    ELSE IF x < Head(s) THEN <<x>> \o s
    ELSE <<Head(s)>> \o Insert(Tail(s), x)

RECURSIVE SortFrom(_, _)
SortFrom(acc, s) == IF s = <<>> THEN acc ELSE SortFrom(Insert(acc, Head(s)), Tail(s))

\* subset.sort(): the characters in ascending order, every occurrence kept.
Sort(s) == SortFrom(<<>>, s)

\* The Font constant that generate formats, from the size metrics m, the
\* glyphs and the sorted characters.
generate_font(m, gs, cs) ==
    LET idx == generate_get_glyph_index(cs)
    IN IF idx.panic THEN Panic
       ELSE [panic |-> FALSE,
             ascender |-> TruncDiv(m.ascender + 63, 64),
             descender |-> TruncDiv(-(m.descender + 63), 64),
             glyphs |-> gs,
             get_glyph_index |-> idx.clauses]

\* ------------------------------------------------------------------ the rasterizer

\* The characters of the font builds: 'a' and the NChars - 1 after it.
Alphabet == 97..(97 + NChars - 1)

\* What load_char can leave in the glyph slot for character c: a failure, a
\* glyph of one row of 8 pixels (the pixels differ from character to
\* character), the same glyph below the baseline, a glyph without pixels.
RasterResults(c) ==
    { [loaded |-> FALSE],
      [loaded |-> TRUE, bitmap |-> [buffer |-> <<c>>, pitch |-> 1, width |-> 8, rows |-> 1],
       bitmap_left |-> 0, bitmap_top |-> 5, advance_x |-> 385],
      [loaded |-> TRUE, bitmap |-> [buffer |-> <<c>>, pitch |-> 1, width |-> 8, rows |-> 1],
       bitmap_left |-> 1, bitmap_top |-> -1, advance_x |-> 385],
      [loaded |-> TRUE, bitmap |-> EmptyBitmap,
       bitmap_left |-> -1, bitmap_top |-> 0, advance_x |-> 256] }

\* The font-wide size metrics, in 1/64 pixel.
SizeMetrics ==
    {[ascender |-> a, descender |-> d] : a \in {0, 1, 64, 65, 640}, d \in {0, -1, -63, -64, -65, -200}}

\* The subset strings: at most MaxSubsetLen characters, in any order, repeated or not.
Subsets == UNION {[1..n -> Alphabet] : n \in 0..MaxSubsetLen}

\* The sorted vectors generate_get_glyph_index is given on its own: the
\* subsets of the code points 1..MaxCode and 65, ascending.
CodePoints == (1..MaxCode) \cup {65}
Ascending(S) ==
    [p \in 1..Cardinality(S) |-> CHOOSE c \in S : Cardinality({x \in S : x < c}) = p - 1]

\* ------------------------------------------------------------------ Image::load

\* a + b on a u8.
add_u8(a, b, oc) ==
    IF a + b > 255
    THEN (IF oc THEN Panic ELSE [panic |-> FALSE, v |-> (a + b) % 256])
    ELSE [panic |-> FALSE, v |-> a + b]

\* (pixel.r + pixel.g + pixel.b) / 3, the sum taken in the pixel's own u8.
avg_color(pixel, oc) ==
    LET rg == add_u8(pixel.r, pixel.g, oc)
    IN IF rg.panic THEN Panic
       ELSE LET rgb == add_u8(rg.v, pixel.b, oc)
            IN IF rgb.panic THEN Panic
               ELSE [panic |-> FALSE, v |-> rgb.v \div 3]

\* (255 - avg_color) as u32 * alpha as u32 / 255
level(avg, alpha) == ((255 - avg) * alpha) \div 255

\* byte | (1 << n)
SetBit(byte, n) == IF (byte \div (2 ^ n)) % 2 = 1 THEN byte ELSE byte + 2 ^ n

\* The two loops of Image::load from pixel p = y * width + x on.
RECURSIVE load_pixels(_, _, _, _, _)
load_pixels(data, img, stride, p, oc) ==
    IF p >= img.width * img.height THEN [panic |-> FALSE, data |-> data]
    ELSE LET y     == p \div img.width
             x     == p % img.width
             pixel == img.buffer[y * img.width + x + 1]
             avg   == avg_color(pixel, oc)
         IN IF avg.panic THEN Panic
            ELSE IF level(avg.v, pixel.a) < 128
            THEN load_pixels([data EXCEPT ![y * stride + (x \div 8) + 1] = SetBit(@, x % 8)],
                             img, stride, p + 1, oc)
            ELSE load_pixels(data, img, stride, p + 1, oc)

\* Image::load on the decoded image img: the Image it returns.
load(img, oc) ==
    LET stride == (img.width + 7) \div 8
        r      == load_pixels([j \in 1..(stride * img.height) |-> 0], img, stride, 0, oc)
    IN IF r.panic THEN Panic
       ELSE [panic |-> FALSE, data |-> r.data, stride |-> stride,
             width |-> img.width, height |-> img.height]

\* The decoded pixels: the channel values around the threshold and at the ends.
ChannelVals == {0, 127, 128, 255}
AlphaVals == {0, 255}
Pixels == [r : ChannelVals, g : ChannelVals, b : ChannelVals, a : AlphaVals]

\* The decoded images: every grid of at most MaxPixels pixels.
Decoded ==
    UNION {[width : {w}, height : {h}, buffer : [1..(w * h) -> Pixels]] :
              <<w, h>> \in {d \in (1..MaxPixels) \X (1..MaxPixels) : d[1] * d[2] <= MaxPixels}}

\* ------------------------------------------------------------------ idle values

IdleRle  == row = Slice(<<>>) /\ width = 0 /\ i = 0 /\ st = None
IdleImg  == bm = EmptyBitmap /\ rle_image = None
IdleIdx  == chars = <<>> /\ code = None
NoFace   == [glyph |-> <<>>, metrics |-> None, sized |-> FALSE]
IdleFont == subset_in = <<>> /\ subset = <<>> /\ glyphs = <<>> /\ k = 0
            /\ face = NoFace /\ font = None
IdlePng  == png = None /\ image = None

\* ------------------------------------------------------------------ generate_rle, stepped

InitRle ==
    /\ pc = "rle_start"
    /\ overflow_checks \in BOOLEAN
    /\ \E c \in SmallRowCases \cup LongRowCases : row = c[1] /\ width = c[2]
    /\ i = 0 /\ st = None
    /\ IdleImg /\ IdleIdx /\ IdleFont /\ IdlePng

\* The locals are initialised from row[0].
RleStart ==
    /\ pc = "rle_start"
    /\ st' = rle_init(<<>>, row)
    /\ i' = 0
    /\ pc' = IF st'.panic THEN "panicked" ELSE "rle_loop"
    /\ UNCHANGED <<overflow_checks, row, width, imgVars, idxVars, fontVars, pngVars>>

\* One iteration of for i in 0..width.
RleStep ==
    /\ pc = "rle_loop"
    /\ i < width
    /\ st' = rle_step(st, row, i, overflow_checks)
    /\ i' = i + 1
    /\ pc' = IF st'.panic THEN "panicked" ELSE "rle_loop"
    /\ UNCHANGED <<overflow_checks, row, width, imgVars, idxVars, fontVars, pngVars>>

\* The loop is over: the last run is pushed.
RleFlush ==
    /\ pc = "rle_loop"
    /\ i >= width
    /\ st' = rle_flush(st)
    /\ pc' = "done"
    /\ UNCHANGED <<overflow_checks, row, width, i, imgVars, idxVars, fontVars, pngVars>>

NextRle == RleStart \/ RleStep \/ RleFlush

SpecRle == InitRle /\ [][NextRle]_vars

\* ------------------------------------------------------------------ generate_rle_image, as one call

InitImage ==
    /\ pc = "image_start"
    /\ overflow_checks \in BOOLEAN
    /\ bm \in Bitmaps
    /\ rle_image = None
    /\ IdleRle /\ IdleIdx /\ IdleFont /\ IdlePng

RleImage ==
    /\ pc = "image_start"
    /\ rle_image' = generate_rle_image(bm, overflow_checks)
    /\ pc' = IF rle_image'.panic THEN "panicked" ELSE "done"
    /\ UNCHANGED <<overflow_checks, bm, rleVars, idxVars, fontVars, pngVars>>

NextImage == RleImage

SpecImage == InitImage /\ [][NextImage]_vars

\* ------------------------------------------------------------------ generate_get_glyph_index, as one call

InitIndex ==
    /\ pc = "index_start"
    /\ overflow_checks \in BOOLEAN
    /\ chars \in {Ascending(S) : S \in SUBSET CodePoints}
    /\ code = None
    /\ IdleRle /\ IdleImg /\ IdleFont /\ IdlePng

GetGlyphIndex ==
    /\ pc = "index_start"
    /\ code' = generate_get_glyph_index(chars)
    /\ pc' = IF code'.panic THEN "panicked" ELSE "done"
    /\ UNCHANGED <<overflow_checks, chars, rleVars, imgVars, fontVars, pngVars>>

NextIndex == GetGlyphIndex

SpecIndex == InitIndex /\ [][NextIndex]_vars

\* ------------------------------------------------------------------ Font::generate

InitFont ==
    /\ pc = "generate_start"
    /\ overflow_checks \in BOOLEAN
    /\ subset_in \in Subsets
    /\ subset = <<>> /\ glyphs = <<>> /\ k = 0
    /\ face = NoFace
    /\ font = None
    /\ IdleRle /\ IdleImg /\ IdleIdx /\ IdlePng

\* The characters are collected and sorted, and the size is set (unwrapped).
GenerateStart ==
    /\ pc = "generate_start"
    /\ subset' = Sort(subset_in)
    /\ \E ok \in BOOLEAN :
          /\ face' = [face EXCEPT !.sized = ok]
          /\ pc' = IF ok THEN "glyphs" ELSE "panicked"
    /\ UNCHANGED <<overflow_checks, subset_in, glyphs, k, font, rleVars, imgVars, idxVars, pngVars>>

\* One iteration of for c in subset.iter(): the glyph of the next character.
\* The rasterizer answers the same for a character each time it is asked.
GenerateGlyph ==
    /\ pc = "glyphs"
    /\ k < Len(subset)
    /\ LET c == subset[k + 1]
       IN \E r \in (IF c \in DOMAIN face.glyph THEN {face.glyph[c]} ELSE RasterResults(c)) :
             LET g == generate_glyph(r, overflow_checks)
             IN /\ face' = [face EXCEPT !.glyph = (c :> r) @@ @]
                /\ IF g.panic
                   THEN pc' = "panicked" /\ UNCHANGED <<glyphs, k>>
                   ELSE pc' = "glyphs" /\ glyphs' = Append(glyphs, g) /\ k' = k + 1
    /\ UNCHANGED <<overflow_checks, subset_in, subset, font, rleVars, imgVars, idxVars, pngVars>>

\* The size metrics are read and the Font constant is formatted.
GenerateFinish ==
    /\ pc = "glyphs"
    /\ k >= Len(subset)
    /\ \E m \in SizeMetrics :
          LET f == generate_font(m, glyphs, subset)
          IN /\ face' = [face EXCEPT !.metrics = m]
             /\ IF f.panic
                THEN pc' = "panicked" /\ UNCHANGED font
                ELSE pc' = "done" /\ font' = f
    /\ UNCHANGED <<overflow_checks, subset_in, subset, glyphs, k, rleVars, imgVars, idxVars, pngVars>>

NextFont == GenerateStart \/ GenerateGlyph \/ GenerateFinish

SpecFont == InitFont /\ [][NextFont]_vars

Spec == SpecFont

\* ------------------------------------------------------------------ Image::load, as one call

InitPng ==
    /\ pc = "load_start"
    /\ overflow_checks \in BOOLEAN
    /\ png \in Decoded
    /\ image = None
    /\ IdleRle /\ IdleImg /\ IdleIdx /\ IdleFont

Load ==
    /\ pc = "load_start"
    /\ image' = load(png, overflow_checks)
    /\ pc' = IF image'.panic THEN "panicked" ELSE "done"
    /\ UNCHANGED <<overflow_checks, png, rleVars, imgVars, idxVars, fontVars>>

NextPng == Load

SpecPng == InitPng /\ [][NextPng]_vars

\* ------------------------------------------------------------------ reading an encoded row

\* A word read as the format defines it: bit 15 the colour, bits 14..0 the length.
Colour(w) == w \div 32768
Length(w) == w % 32768

\* Pixel n of a row (from 0), the most significant bit of a byte first.
RowBit(r, n) == (RowByte(r, n \div 8) \div (2 ^ (7 - (n % 8)))) % 2

RECURSIVE SumLen(_)
SumLen(words) == IF words = <<>> THEN 0 ELSE Length(Head(words)) + SumLen(Tail(words))

\* The colour of pixel n in the expansion of words (2 past its end).
RECURSIVE ColourAt(_, _)
ColourAt(words, n) ==
    IF words = <<>> THEN 2
    ELSE IF n < Length(Head(words)) THEN Colour(Head(words))
    ELSE ColourAt(Tail(words), n - Length(Head(words)))

\* The pixels of a row of w pixels at which a run starts, and run j's start and length.
RunStarts(r, w) == {0} \cup {n \in 1..(w - 1) : RowBit(r, n) # RowBit(r, n - 1)}
RunStart(r, w, j) ==
    CHOOSE b \in RunStarts(r, w) : Cardinality({x \in RunStarts(r, w) : x < b}) = j - 1
RunEnd(r, w, j) ==
    IF j = Cardinality(RunStarts(r, w)) THEN w ELSE RunStart(r, w, j + 1)

\* ------------------------------------------------------------------ claims: generate_rle

\* C1: expanding the words generate_rle appends for a row of width pixels
\* gives back exactly the width pixels of the row: as many pixels as the row
\* has, each of the row's colour.
C1_RoundTrip ==
    pc = "done" /\ st # None /\ ~st.panic =>
        /\ SumLen(st.output) = width
        /\ \A n \in 0..(width - 1) : ColourAt(st.output, n) = RowBit(row, n)

\* C9: the runs emitted for a row are maximal: every emitted run has a
\* length of at least 1 and no two adjacent runs have the same colour.
C9_MaximalRuns ==
    pc = "done" /\ st # None /\ ~st.panic =>
        /\ \A j \in 1..Len(st.output) : Length(st.output[j]) >= 1
        /\ \A j \in 1..(Len(st.output) - 1) : Colour(st.output[j]) # Colour(st.output[j + 1])

\* C10: every word pushed carries the colour of its run in bit 15 and the
\* true number of pixels of the run in bits 14..0, a number in 1..32767.
C10_WordIsRun ==
    pc = "done" /\ st # None /\ ~st.panic =>
        /\ Len(st.output) = Cardinality(RunStarts(row, width))
        /\ \A j \in 1..Len(st.output) :
              /\ Colour(st.output[j]) = RowBit(row, RunStart(row, width, j))
              /\ Length(st.output[j]) = RunEnd(row, width, j) - RunStart(row, width, j)
              /\ Length(st.output[j]) \in 1..32767

\* For the rows whose runs are all shorter than 32768 pixels the three
\* statements above do hold.
ShortRowsEncodeExactly ==
    width < 32768 => C1_RoundTrip /\ C9_MaximalRuns /\ C10_WordIsRun

\* ------------------------------------------------------------------ claims: generate_rle_image

\* header[j] of an encoded image, j counted from 0 as in the source.
Header(img, j) == img.data[j + 1]

Encoded == pc = "done" /\ rle_image # None /\ ~rle_image.panic /\ rle_image.height >= 1

RangeOf(cl) ==
    IF cl.op = "eq" THEN <<cl.a, 1, cl.ret>> ELSE <<cl.lo, cl.hi - cl.lo, cl.base>>

Ranges(clauses) == [j \in 1..Len(clauses) |-> RangeOf(clauses[j])]

Range(s) == {s[j] : j \in 1..Len(s)}

\* The first code points of the maximal runs of consecutive code points of S,
\* and the run that starts at b.
Firsts(S) == {c \in S : c - 1 \notin S}
RunOf(S, b) == {c \in S : c >= b /\ \A x \in b..c : x \in S}

Compiled == pc = "done" /\ code # None /\ ~code.panic

\* C2: for a non-empty strictly ascending vector the emitted ranges are, in
\* ascending order, one per maximal run of consecutive code points, with the
\* run's first code point, its number of code points and the position of its
\* first character in the vector; {1,2,3,7,8,10} and {65} give the ranges
\* stated.
C2_MaximalRanges ==
    Compiled =>
        LET S  == Range(chars)
            rs == Ranges(code.clauses)
        IN /\ Len(rs) = Cardinality(Firsts(S))
           /\ \A j \in 1..Len(rs) :
                 /\ rs[j][1] = Ascending(Firsts(S))[j]
                 /\ rs[j][2] = Cardinality(RunOf(S, rs[j][1]))
                 /\ rs[j][3] = Cardinality({x \in S : x < rs[j][1]})
           /\ (chars = <<1, 2, 3, 7, 8, 10>> => rs = << <<1, 3, 0>>, <<7, 2, 3>>, <<10, 1, 5>> >>)
           /\ (chars = <<65>> => rs = << <<65, 1, 0>> >>)

\* The vector 1,2,3,7,8,10 has been compiled, into three ranges.
C2_Witness ==
    Compiled /\ chars = <<1, 2, 3, 7, 8, 10>> /\ Len(code.clauses) = 3

\* ------------------------------------------------------------------ claims: Font::generate

Requested == Range(subset_in)
Built == pc = "done" /\ font # None
Distinct == Cardinality(Requested) = Len(subset_in)

\* The glyph generate_glyph makes of character c, with the rasterizer's answer for c.
GlyphOf(c) == generate_glyph(face.glyph[c], overflow_checks)

\* The number of requested characters below c: c's place in ascending order, from 0.
Place(c) == Cardinality({x \in Requested : x < c})

\* C3: for distinct characters in any order the glyphs are emitted in
\* ascending code-point order, the emitted lookup gives each requested
\* character the position of its glyph and None to every other character;
\* all of it depends on the set of characters alone, not on their order.
C3_LookupMatchesGlyphs ==
    Built /\ Distinct =>
        /\ Len(font.glyphs) = Cardinality(Requested)
        /\ \A c \in Requested : font.glyphs[Place(c) + 1] = GlyphOf(c)
        /\ \A c \in Requested : Lookup(font.get_glyph_index, c) = [some |-> Place(c)]
        /\ \A c \in (96..(97 + NChars)) \ Requested : Lookup(font.get_glyph_index, c) = None
        /\ Ranges(font.get_glyph_index) = Ranges(index_loop(Ascending(Requested), 1,
                                                 Ascending(Requested)[1], 1, <<>>))

\* The subset "bda" has been built: three glyphs, the lookup in two clauses.
C3_Witness ==
    Built /\ subset_in = <<98, 100, 97>> /\ Len(font.glyphs) = 3
          /\ Len(font.get_glyph_index) = 2

\* C6: the emitted ascender is ceil(a / 64) and the emitted descender is
\* ceil(|d| / 64), for the raw ascender a >= 0 and descender d <= 0.
CeilDiv(a, b) == -((-a) \div b)
C6_MetricsRoundUp ==
    Built =>
        /\ font.ascender = CeilDiv(face.metrics.ascender, 64)
        /\ font.descender = CeilDiv(-face.metrics.descender, 64)

\* The ascender alone is rounded up as stated.
AscenderRoundsUp == Built => font.ascender = CeilDiv(face.metrics.ascender, 64)

\* C7: the requested characters are deduplicated: one glyph per distinct
\* character, in strictly ascending order, and the ranges of the
\* deduplicated set.
C7_Deduplicated ==
    Built =>
        /\ Len(font.glyphs) = Cardinality(Requested)
        /\ \A j \in 1..(Len(subset) - 1) : subset[j] < subset[j + 1]
        /\ Ranges(font.get_glyph_index) = Ranges(index_loop(Ascending(Requested), 1,
                                                 Ascending(Requested)[1], 1, <<>>))

\* The rasterizer's answer for c is one generate_glyph fails on.
Fails(r) == ~r.loaded \/ r.bitmap_top < 0

\* C8: no partial artifact: once a fail condition has occurred (a character
\* that does not load, a negative vertical bearing, no character at all) no
\* output is returned, however many glyphs were built before; an output is
\* returned only at the end of a build in which every glyph succeeded.
C8_NoPartialOutput ==
    /\ (\E c \in DOMAIN face.glyph : Fails(face.glyph[c])) => font = None
    /\ subset_in = <<>> => font = None
    /\ pc = "panicked" => font = None
    /\ font # None =>
          /\ pc = "done"
          /\ Len(font.glyphs) = Len(subset_in)
          /\ \A c \in Requested : c \in DOMAIN face.glyph /\ ~Fails(face.glyph[c])

\* A build has aborted on a negative bearing after a glyph was built.
C8_Witness ==
    /\ pc = "panicked"
    /\ Len(glyphs) >= 1
    /\ \E c \in DOMAIN face.glyph : face.glyph[c].loaded /\ face.glyph[c].bitmap_top < 0
    /\ font = None

\* ------------------------------------------------------------------ claims: Image::load

Loaded == pc = "done" /\ image # None /\ ~image.panic

\* The output bit of pixel (x, y).
OutputBit(img, x, y) == (img.data[y * img.stride + (x \div 8) + 1] \div (2 ^ (x % 8))) % 2

\* C5: a pixel's output bit is set exactly when level < 128, for
\* level = (255 - avg_rgb) * a / 255 and avg_rgb = floor((r + g + b) / 3).
C5_Threshold ==
    Loaded =>
        \A y \in 0..(png.height - 1) : \A x \in 0..(png.width - 1) :
            LET pixel == png.buffer[y * png.width + x + 1]
                avg_rgb == (pixel.r + pixel.g + pixel.b) \div 3
            IN (OutputBit(image, x, y) = 1) <=> (((255 - avg_rgb) * pixel.a) \div 255 < 128)

\* Where the three channels add up to at most 255 the bit is as stated.
ThresholdWithoutOverflow ==
    Loaded =>
        \A y \in 0..(png.height - 1) : \A x \in 0..(png.width - 1) :
            LET pixel == png.buffer[y * png.width + x + 1]
                avg_rgb == (pixel.r + pixel.g + pixel.b) \div 3
            IN pixel.r + pixel.g + pixel.b <= 255 =>
                 ((OutputBit(image, x, y) = 1) <=> (((255 - avg_rgb) * pixel.a) \div 255 < 128))

====
